---- MODULE Spec2Model ----
(***************************************************************************)
(* The authenticated API client of the admin dashboard                     *)
(* (src/static/js/api-client.js): the token pair kept in memory and in     *)
(* localStorage, request() with its refresh-and-retry path on 401,         *)
(* upload() over XMLHttpRequest, and batch(); and the data table and the    *)
(* form of the component manager (src/static/js/components.js).            *)
(*                                                                         *)
(* JavaScript runs each callback to its next network await without         *)
(* interruption, so one action is one such run: from the arrival of a      *)
(* response (or the caller's call) to the next fetch or to the settling of *)
(* the call's promise.  The server and the transport are nondeterministic. *)
(***************************************************************************)
EXTENDS Integers, Sequences, FiniteSets, TLC

VARIABLES
    token,          \* this.token
    refreshToken,   \* this.refreshToken
    storage,        \* localStorage: admin_token, admin_refresh_token
    location,       \* window.location.href
    calls,          \* the calls of request() / upload() the page has made
    batch,          \* the call of batch(), if any
    table,          \* the data table made by createDataTable, if any
    form            \* the form made by createForm, if any

\* the state of the component manager
ui == <<table, form>>

vars == <<token, refreshToken, storage, location, calls, batch, table, form>>

(***************************************************************************)
(* Bounds                                                                  *)
(***************************************************************************)
\* the longest list of requests the page passes to batch()
MaxBatch == 2

\* the most progress events the browser fires for one upload
MaxProgress == 3

\* the calls that can be in flight at once: the members of a batch; a page
\* that awaits each call before the next uses the first only
Calls == 1..MaxBatch

(***************************************************************************)
(* JavaScript values                                                       *)
(***************************************************************************)
NullV == "<null>"            \* null
UndefV == "<undefined>"      \* undefined

\* JavaScript truthiness of null, undefined and strings
Truthy(v) == v \notin {NullV, UndefV, ""}

\* String(v), as localStorage.setItem converts the value it stores
ToStr(v) == IF v = UndefV THEN "undefined" ELSE IF v = NullV THEN "null" ELSE v

\* JSON values: null, or an object with the fields the client reads
JNull == [kind |-> "null", error |-> UndefV, access_token |-> UndefV,
          refresh_token |-> UndefV, id |-> UndefV]
JUndef == [kind |-> "undefined", error |-> UndefV, access_token |-> UndefV,
           refresh_token |-> UndefV, id |-> UndefV]
JObj(err, at, rt, id) == [kind |-> "object", error |-> err, access_token |-> at,
                          refresh_token |-> rt, id |-> id]
JEmpty == JObj(UndefV, UndefV, UndefV, UndefV)      \* {}
JFalse == [kind |-> "false", error |-> UndefV, access_token |-> UndefV,
           refresh_token |-> UndefV, id |-> UndefV]   \* false

\* JavaScript truthiness of the values passed as request data
JTruthy(v) == v.kind \notin {"null", "undefined", "false"}

\* JSON.parse of a body text: the value, or a SyntaxError
JsonParse(text) ==
    CASE text = "null" -> [ok |-> TRUE, value |-> JNull]
      [] text = "{}" -> [ok |-> TRUE, value |-> JEmpty]
      [] text = "{\"id\":7}" -> [ok |-> TRUE, value |-> JObj(UndefV, UndefV, UndefV, "7")]
      [] text = "{\"error\":\"quota exceeded\"}" ->
            [ok |-> TRUE, value |-> JObj("quota exceeded", UndefV, UndefV, UndefV)]
      [] text = "{\"error\":\"\"}" -> [ok |-> TRUE, value |-> JObj("", UndefV, UndefV, UndefV)]
      [] text = "{\"access_token\":\"a1\",\"refresh_token\":\"r1\"}" ->
            [ok |-> TRUE, value |-> JObj(UndefV, "a1", "r1", UndefV)]
      [] text = "{\"access_token\":\"a2\",\"refresh_token\":\"r2\"}" ->
            [ok |-> TRUE, value |-> JObj(UndefV, "a2", "r2", UndefV)]
      [] text = "{\"access_token\":\"a1\"}" ->
            [ok |-> TRUE, value |-> JObj(UndefV, "a1", UndefV, UndefV)]
      [] OTHER -> [ok |-> FALSE, value |-> JUndef]

SyntaxErrorMsg == "Unexpected token < in JSON at position 0"
NullTypeErrorMsg == "Cannot read properties of null (reading 'error')"

(***************************************************************************)
(* The server and the transport                                            *)
(***************************************************************************)
Statuses == {200, 401, 500}
ApiBodies == {"<html>", "null", "{}", "{\"id\":7}", "{\"error\":\"quota exceeded\"}",
              "{\"error\":\"\"}"}
RefreshBodies == {"<html>", "null", "{}",
                  "{\"access_token\":\"a1\",\"refresh_token\":\"r1\"}",
                  "{\"access_token\":\"a2\",\"refresh_token\":\"r2\"}",
                  "{\"access_token\":\"a1\"}"}
\* messages of the errors a failing transport rejects with
TransportErrors == {"Failed to fetch", ""}

HttpResponse(status, body) == [net |-> "ok", status |-> status, body |-> body, message |-> ""]
TransportFailure(msg) == [net |-> "fail", status |-> 0, body |-> "", message |-> msg]
NoResponse == [net |-> "none", status |-> 0, body |-> "", message |-> ""]

\* what may come back for a request to an API endpoint
ApiResponses ==
    {HttpResponse(s, b) : s \in Statuses, b \in ApiBodies}
        \cup {TransportFailure(m) : m \in TransportErrors}

\* what may come back from POST /api/auth/refresh
RefreshResponses ==
    {HttpResponse(200, b) : b \in RefreshBodies}
        \cup {HttpResponse(401, "{\"error\":\"quota exceeded\"}")}
        \cup {TransportFailure(m) : m \in TransportErrors}

\* the answers the members of a batch may get: a success, an HTTP error, a 401
\* and a transport failure; the refresh endpoint accepts or rejects
BatchApiResponses ==
    {HttpResponse(200, "{\"id\":7}"), HttpResponse(500, "{\"error\":\"quota exceeded\"}"),
     HttpResponse(401, "{}"), TransportFailure("Failed to fetch")}
BatchRefreshResponses ==
    {HttpResponse(200, "{\"access_token\":\"a1\",\"refresh_token\":\"r1\"}"),
     HttpResponse(401, "{\"error\":\"quota exceeded\"}")}

\* `HTTP ${response.status}: ${response.statusText}`
HttpErrorText(status) ==
    CASE status = 200 -> "HTTP 200: OK"
      [] status = 401 -> "HTTP 401: Unauthorized"
      [] status = 500 -> "HTTP 500: Internal Server Error"
      [] OTHER -> "HTTP"

\* response.ok
Ok(response) == response.status >= 200 /\ response.status < 300

(***************************************************************************)
(* Requests the page makes                                                 *)
(***************************************************************************)
\* String.prototype.toUpperCase on the method names used
ToUpperCase(m) ==
    CASE m = "get" -> "GET"
      [] m = "post" -> "POST"
      [] m = "delete" -> "DELETE"
      [] m = "put" -> "PUT"
      [] OTHER -> m

\* JSON.stringify of the request data used
JsonStringify(v) ==
    CASE v = JObj(UndefV, UndefV, UndefV, "7") -> "{\"id\":7}"
      [] v = JObj(UndefV, UndefV, UndefV, "admin@example.com") ->
            "{\"email\":\"admin@example.com\",\"password\":\"secret\"}"
      [] v = JNull -> "null"
      [] v = JFalse -> "false"
      [] OTHER -> "{}"

\* the request descriptors {method, endpoint, data} the page passes
Requests ==
    {[method |-> "get", endpoint |-> "/admin/users", data |-> JNull],
     [method |-> "post", endpoint |-> "/admin/api-configs",
      data |-> JObj(UndefV, UndefV, UndefV, "7")]}
NoRequest == [method |-> "", endpoint |-> "", data |-> JUndef]

\* the requests a page that calls request() itself passes: also data with a
\* method that takes no body, a mutating method without data, and data that
\* is the value false
SoloRequests ==
    Requests \cup
    {[method |-> "delete", endpoint |-> "/admin/users/7",
      data |-> JObj(UndefV, UndefV, UndefV, "7")],
     [method |-> "post", endpoint |-> "/admin/tasks/7/retry", data |-> JNull],
     [method |-> "put", endpoint |-> "/admin/feature-toggles/7", data |-> JFalse]}

\* the headers of a request; a header that is not set is undefined
Headers(ct, accept, auth, custom) ==
    [ContentType |-> ct, Accept |-> accept, Authorization |-> auth, XRequestedWith |-> custom]

\* the options a caller of request() passes: none, or headers of its own
NoOptions == [headers |-> Headers(UndefV, UndefV, UndefV, UndefV), hasHeaders |-> FALSE]
OptionsSet ==
    {NoOptions,
     [headers |-> Headers(UndefV, UndefV, UndefV, "XMLHttpRequest"), hasHeaders |-> TRUE]}

\* request(method, endpoint, data) as login() and logout() call it through post()
LoginRequest ==
    [method |-> "POST", endpoint |-> "/auth/admin/login",
     data |-> JObj(UndefV, UndefV, UndefV, "admin@example.com")]
LogoutRequest == [method |-> "POST", endpoint |-> "/auth/logout", data |-> JNull]

(***************************************************************************)
(* Envelopes and promises                                                  *)
(***************************************************************************)
\* { success: true, data }
Success(data) == [success |-> TRUE, data |-> data, error |-> UndefV, retry |-> FALSE]
\* { success: false, error }
Failure(msg) == [success |-> FALSE, data |-> JUndef, error |-> msg, retry |-> FALSE]
\* { success: false, retry: true }
RetryMarker == [success |-> FALSE, data |-> JUndef, error |-> UndefV, retry |-> TRUE]
\* a client that reports the irrecoverable 401 as any other failure
AuthRequired_Generic == Failure("Request failed")

\* { success: false, error: 'Authentication required' }
AuthRequired == Failure("Authentication required")

Pending == [state |-> "pending", value |-> Failure(UndefV), reason |-> ""]
Fulfilled(v) == [state |-> "fulfilled", value |-> v, reason |-> ""]
Rejected(msg) == [state |-> "rejected", value |-> Failure(UndefV), reason |-> msg]

(***************************************************************************)
(* APIClient: the token pair                                               *)
(***************************************************************************)
\* the token pair of the client as one value, to pass through the helpers
Auth == [token |-> token, refreshToken |-> refreshToken, storage |-> storage]

\* a setToken that stores the access token only
setToken_AccessOnly(a, tok, rt) ==
    [a EXCEPT !.token = tok, !.storage.admin_token = ToStr(tok)]

setToken(a, tok, rt) ==
    LET a1 == [a EXCEPT !.token = tok, !.storage.admin_token = ToStr(tok)]
    IN  IF Truthy(rt)
        THEN [a1 EXCEPT !.refreshToken = rt, !.storage.admin_refresh_token = ToStr(rt)]
        ELSE a1

\* a clearAuth that forgets to remove the refresh token from localStorage
clearAuth_KeepStored(a) ==
    [token |-> NullV, refreshToken |-> NullV,
     storage |-> [admin_token |-> NullV,
                  admin_refresh_token |-> a.storage.admin_refresh_token]]

clearAuth(a) ==
    [token |-> NullV, refreshToken |-> NullV,
     storage |-> [admin_token |-> NullV, admin_refresh_token |-> NullV]]

getHeaders(tok) ==
    Headers("application/json", "application/json",
            IF Truthy(tok) THEN tok ELSE UndefV, UndefV)

\* the only header upload() sets on its XMLHttpRequest
UploadHeaders(tok) ==
    Headers(UndefV, UndefV, IF Truthy(tok) THEN tok ELSE UndefV, UndefV)

(***************************************************************************)
(* APIClient.handleResponse                                                *)
(***************************************************************************)
\* response.json() of a fetch Response: rejects on a body that is not JSON
FetchJson(response) ==
    LET p == JsonParse(response.body)
    IN  [threw |-> ~p.ok, data |-> p.value]

\* response.json() of the object upload() builds: JSON.parse throws inside the
\* call itself, before handleResponse's .catch is attached to anything
XhrJson(response) ==
    LET p == JsonParse(response.body)
    IN  [threw |-> ~p.ok, data |-> p.value]

\* const data = await response.json().catch(() => ({}))
\* [threw]: the exception leaves handleResponse; otherwise [data]
AwaitJsonCatch(j, sync) ==
    IF j.threw
    THEN IF sync THEN [threw |-> TRUE, data |-> JUndef] ELSE [threw |-> FALSE, data |-> JEmpty]
    ELSE [threw |-> FALSE, data |-> j.data]

\* data.error || `HTTP ${response.status}: ${response.statusText}`, thrown as an
\* Error; reading .error of null is a TypeError
HttpErrorMessage(data, response) ==
    IF data.kind = "null" THEN NullTypeErrorMsg
    ELSE IF Truthy(data.error) THEN data.error
    ELSE HttpErrorText(response.status)

\* a handleResponse that returns { success: true } without the data
HandleResponse_DropData(parsed, response, rt) ==
    IF parsed.threw
    THEN [step |-> "throw", value |-> Failure(UndefV), reason |-> SyntaxErrorMsg]
    ELSE IF ~Ok(response)
    THEN IF response.status = 401
         THEN IF Truthy(rt)
              THEN [step |-> "refresh", value |-> Failure(UndefV), reason |-> ""]
              ELSE [step |-> "authfail", value |-> AuthRequired, reason |-> ""]
         ELSE [step |-> "throw", value |-> Failure(UndefV),
               reason |-> HttpErrorMessage(parsed.data, response)]
    ELSE [step |-> "return", value |-> Success(JUndef), reason |-> ""]

\* a handleResponse that takes every error status for an authentication error
HandleResponse_AuthAnyError(parsed, response, rt) ==
    IF parsed.threw
    THEN [step |-> "throw", value |-> Failure(UndefV), reason |-> SyntaxErrorMsg]
    ELSE IF ~Ok(response)
    THEN IF Truthy(rt)
         THEN [step |-> "refresh", value |-> Failure(UndefV), reason |-> ""]
         ELSE [step |-> "authfail", value |-> AuthRequired, reason |-> ""]
    ELSE [step |-> "return", value |-> Success(parsed.data), reason |-> ""]

\* handleResponse up to its first network await: what it does next
\*   "return" value | "throw" reason | "refresh" (await refreshAuthToken())
\*   | "authfail" (clearAuth, redirect, return AuthRequired)
HandleResponse(parsed, response, rt) ==
    IF parsed.threw
    THEN [step |-> "throw", value |-> Failure(UndefV), reason |-> SyntaxErrorMsg]
    ELSE IF ~Ok(response)
    THEN IF response.status = 401
         THEN IF Truthy(rt)
              THEN [step |-> "refresh", value |-> Failure(UndefV), reason |-> ""]
              ELSE [step |-> "authfail", value |-> AuthRequired, reason |-> ""]
         ELSE [step |-> "throw", value |-> Failure(UndefV),
               reason |-> HttpErrorMessage(parsed.data, response)]
    ELSE [step |-> "return", value |-> Success(parsed.data), reason |-> ""]

(***************************************************************************)
(* APIClient.refreshAuthToken                                              *)
(***************************************************************************)
\* from the arrival of the refresh endpoint's answer: whether the refresh
\* succeeded and the token pair it leaves
RefreshAuthToken(a, rresp) ==
    IF rresp.net = "fail" THEN [refreshed |-> FALSE, auth |-> a]
    ELSE IF Ok(rresp)
    THEN LET p == JsonParse(rresp.body)
         IN  IF ~p.ok \/ p.value.kind = "null"
             THEN [refreshed |-> FALSE, auth |-> a]
             ELSE [refreshed |-> TRUE,
                   auth |-> setToken(a, p.value.access_token, p.value.refresh_token)]
    ELSE [refreshed |-> FALSE, auth |-> a]

(***************************************************************************)
(* APIClient.request                                                       *)
(***************************************************************************)
\* the config request() passes to fetch: { method, headers, ...options }, where
\* a headers key of the options replaces the headers object, then the body
Config(r, headers, options) ==
    LET m == ToUpperCase(r.method)
    IN  [method |-> m,
         headers |-> IF options.hasHeaders THEN options.headers ELSE headers,
         body |-> IF JTruthy(r.data) /\ m \in {"POST", "PUT", "PATCH"}
                  THEN JsonStringify(r.data) ELSE UndefV]

\* a retry that sends the config of the first attempt again
RetryConfig_KeepHeaders(config, headers) == config

\* the config of the retry: config.headers = this.getHeaders()
RetryConfig(config, headers) == [config EXCEPT !.headers = headers]

\* a request as sent, with the access token the client held when it sent it
Sent(config, tok) ==
    [method |-> config.method, headers |-> config.headers, body |-> config.body,
     stored |-> tok]

\* the calls that go through request(): request itself, login and logout
ViaRequest(kind) == kind \in {"request", "login", "logout"}

\* a catch that returns error.message as it is
RequestCatch_NoFallback(msg) == Failure(msg)

\* catch (error) { return { success: false, error: error.message || ... } }
RequestCatch(msg) == Failure(IF Truthy(msg) THEN msg ELSE "Network error occurred")

\* how the promise of a call settles when handleResponse returns v
Returned(kind, v) == Fulfilled(v)

\* how the promise of a call settles when an exception reaches the call's handler
Thrown(kind, msg) ==
    IF kind = "upload" THEN Rejected(msg) ELSE Fulfilled(RequestCatch(msg))

(***************************************************************************)
(* State                                                                   *)
(***************************************************************************)
\* the XMLHttpRequest of an upload: the size of its body, whether its progress
\* events are length-computable, whether upload() was given onProgress, the
\* bytes sent, the events fired and whether the body is sent in full
NoXhr == [size |-> 0, computable |-> FALSE, onProgress |-> FALSE, loaded |-> 0,
          events |-> 0, complete |-> FALSE]

IdleCall ==
    [kind |-> "none", pc |-> "idle", req |-> NoRequest, options |-> NoOptions,
     sent |-> <<>>, refreshes |-> <<>>, status1 |-> "none", resp |-> NoResponse,
     outcome |-> Pending, xhr |-> NoXhr, progress |-> <<>>]

NoBatch == [state |-> "none", requests |-> <<>>, results |-> <<>>]

(***************************************************************************)
(* ComponentManager: text                                                  *)
(***************************************************************************)
\* a string is the sequence of its characters

\* String.prototype.toLowerCase
LowerCaseChar(ch) ==
    CASE ch = "A" -> "a"
      [] ch = "B" -> "b"
      [] ch = "C" -> "c"
      [] OTHER -> ch
toLowerCase(str) == [i \in 1..Len(str) |-> LowerCaseChar(str[i])]

\* the code unit of a character, which < and > on strings compare
CharCode(ch) ==
    CASE ch = " " -> 32
      [] ch = "1" -> 49
      [] ch = "2" -> 50
      [] ch = "A" -> 65
      [] ch = "B" -> 66
      [] ch = "C" -> 67
      [] ch = "a" -> 97
      [] ch = "b" -> 98
      [] ch = "c" -> 99
      [] ch = "d" -> 100
      [] ch = "x" -> 120
      [] ch = "y" -> 121
      [] OTHER -> 122

\* a < b on strings
RECURSIVE StrLess(_, _)
StrLess(a, b) ==
    IF b = <<>> THEN FALSE
    ELSE IF a = <<>> THEN TRUE
    ELSE IF CharCode(Head(a)) < CharCode(Head(b)) THEN TRUE
    ELSE IF CharCode(Head(a)) > CharCode(Head(b)) THEN FALSE
    ELSE StrLess(Tail(a), Tail(b))

\* String.prototype.includes
Includes(str, part) ==
    \E i \in 0..Len(str) :
        i + Len(part) <= Len(str) /\ SubSeq(str, i + 1, i + Len(part)) = part

(***************************************************************************)
(* ComponentManager: the data table                                        *)
(***************************************************************************)
\* the rows the pages show: users with a name and a status
TableRow(name, status) == [name |-> name, status |-> status]
Users ==
    <<TableRow(<<"b">>, <<"x">>), TableRow(<<"A", "b">>, <<"y">>),
      TableRow(<<"a">>, <<"x">>), TableRow(<<"c">>, <<"y">>),
      TableRow(<<"B", "c">>, <<"x">>), TableRow(<<"a", "c">>, <<"x">>)>>
Columns == {"name", "status"}

\* what the user types into the search box
Queries == {<<>>, <<"b">>, <<"A">>, <<"y">>, <<"d">>}

\* the tables the pages create: data and the options that matter here
TableInputs ==
    {[data |-> Users, pageSize |-> 1, pagination |-> TRUE, selectable |-> FALSE],
     [data |-> Users, pageSize |-> 10, pagination |-> TRUE, selectable |-> FALSE],
     [data |-> SubSeq(Users, 1, 3), pageSize |-> 2, pagination |-> TRUE, selectable |-> TRUE],
     [data |-> SubSeq(Users, 1, 3), pageSize |-> 1, pagination |-> TRUE, selectable |-> TRUE],
     [data |-> <<>>, pageSize |-> 10, pagination |-> TRUE, selectable |-> TRUE]}

NoTable == [id |-> NullV]
NoForm == [id |-> NullV]

\* createDataTable(containerId, columns, data, options); toggled and lastOp
\* record what the user did: the rows whose checkbox the user has switched
\* on, and the handler that ran last
createDataTable(in) ==
    [id |-> "table_users",
     data |-> in.data,
     config |-> [pagination |-> in.pagination, pageSize |-> in.pageSize,
                 selectable |-> in.selectable],
     currentPage |-> 1,
     sortColumn |-> NullV,
     sortDirection |-> "asc",
     searchQuery |-> <<>>,
     selectedRows |-> {},
     toggled |-> {},
     lastOp |-> "create"]

\* filterData(data, query)
filterData(data, query) ==
    IF query = <<>> THEN data
    ELSE SelectSeq(data, LAMBDA row :
            \E col \in Columns : Includes(toLowerCase(row[col]), toLowerCase(query)))

\* sortData(data, column, direction): Array.prototype.sort is stable
sortData(data, column, direction) ==
    IF column = NullV THEN data
    ELSE LET n == Len(data)
             key == [i \in 1..n |-> toLowerCase(data[i][column])]
             first(i, j) == IF direction = "asc" THEN StrLess(key[i], key[j])
                            ELSE StrLess(key[j], key[i])
             rank == [i \in 1..n |-> Cardinality({j \in 1..n :
                            first(j, i) \/ (key[j] = key[i] /\ j < i)}) + 1]
         IN  [k \in 1..n |-> data[CHOOSE i \in 1..n : rank[i] = k]]

\* renderTable: the filtered and sorted rows, the number of pages, the index
\* of the first row of the page and the rows of the page
renderTable(t) ==
    LET processedData ==
            sortData(filterData(t.data, t.searchQuery), t.sortColumn, t.sortDirection)
        \* Math.ceil(processedData.length / config.pageSize)
        totalPages == (Len(processedData) + t.config.pageSize - 1) \div t.config.pageSize
        startIndex == (t.currentPage - 1) * t.config.pageSize
        \* processedData.slice(startIndex, startIndex + config.pageSize)
        pageData == SubSeq(processedData, startIndex + 1,
                           IF startIndex + t.config.pageSize < Len(processedData)
                           THEN startIndex + t.config.pageSize ELSE Len(processedData))
    IN  [processedData |-> processedData, totalPages |-> totalPages,
         startIndex |-> startIndex, pageData |-> pageData]

Max(a, b) == IF a > b THEN a ELSE b
Min(a, b) == IF a < b THEN a ELSE b
\* generatePageNumbers(currentPage, totalPages): the pages of the numbered
\* buttons, at most five around the current page
generatePageNumbers(currentPage, totalPages) ==
    LET maxVisible == 5
        start0 == Max(1, currentPage - (maxVisible \div 2))
        end == Min(totalPages, start0 + maxVisible - 1)
        start == IF end - start0 < maxVisible - 1
                 THEN Max(1, end - maxVisible + 1) ELSE start0
    IN  start..end

\* the pages the enabled controls of the rendered pagination call changePage
\* with: previous, the numbered buttons, next
OfferedPages(t) ==
    LET totalPages == renderTable(t).totalPages
    IN  IF t.config.pagination /\ totalPages > 1
        THEN (IF t.currentPage = 1 THEN {} ELSE {t.currentPage - 1})
                \cup generatePageNumbers(t.currentPage, totalPages)
                \cup (IF t.currentPage = totalPages THEN {} ELSE {t.currentPage + 1})
        ELSE {}

\* the row indices the rendered rows call toggleRow with, and the rows whose
\* checkbox is rendered checked
RenderedIndices(t) ==
    LET r == renderTable(t)
    IN  IF t.config.selectable
        THEN {r.startIndex + index : index \in 0..(Len(r.pageData) - 1)}
        ELSE {}
RenderedChecked(t) ==
    LET r == renderTable(t)
    IN  {r.pageData[index + 1] : index \in {i \in 0..(Len(r.pageData) - 1) :
                (r.startIndex + i) \in t.selectedRows}}

(***************************************************************************)
(* ComponentManager: the form                                              *)
(***************************************************************************)
\* the values a FormData holds for a field: a string, a File, or nothing
StrValue(chars) == [kind |-> "string", chars |-> chars]
FileValue == [kind |-> "file", chars |-> <<>>]
NoValue == [kind |-> "undefined", chars |-> <<>>]

\* JavaScript truthiness of such a value
ValueTruthy(v) == v.kind = "file" \/ (v.kind = "string" /\ v.chars # <<>>)

\* String.prototype.trim
RECURSIVE trimStart(_)
trimStart(str) ==
    IF str # <<>> /\ Head(str) = " " THEN trimStart(Tail(str)) ELSE str
RECURSIVE trimEnd(_)
trimEnd(str) ==
    IF str # <<>> /\ str[Len(str)] = " " THEN trimEnd(SubSeq(str, 1, Len(str) - 1))
    ELSE str
trim(str) == trimEnd(trimStart(str))

\* RegExp.prototype.test for the pattern /^\d+$/ of the code field
PatternTest(str) == str # <<>> /\ \A i \in 1..Len(str) : str[i] \in {"1", "2"}

\* the messages of validateForm: required field, too short, too long, and the
\* default message of a pattern
RequiredMsg == "required"
MinLengthMsg(n) == "min " \o ToString(n)
MaxLengthMsg(n) == "max " \o ToString(n)
PatternMsg == "bad format"

\* the fields the page passes to createForm; a length of 0 is no limit
FieldNames == {"name", "code", "avatar"}
NoRules == [present |-> FALSE, minLength |-> 0, maxLength |-> 0, pattern |-> FALSE]
FormFields(avatarRequired) ==
    <<[name |-> "name", type |-> "text", required |-> TRUE,
       validation |-> [present |-> TRUE, minLength |-> 2, maxLength |-> 3,
                       pattern |-> FALSE]],
      [name |-> "code", type |-> "text", required |-> FALSE,
       validation |-> [present |-> TRUE, minLength |-> 0, maxLength |-> 0,
                       pattern |-> TRUE]],
      [name |-> "avatar", type |-> "file", required |-> avatarRequired,
       validation |-> NoRules]>>

\* errors = {} and values = {}
NoErrors == [f \in FieldNames |-> UndefV]
NoValues == [f \in FieldNames |-> NoValue]

\* what the user may have entered when the form is submitted
SubmittedValues ==
    [name : {StrValue(<<>>), StrValue(<<" ">>), StrValue(<<"a">>), StrValue(<<"a", "b">>),
             StrValue(<<" ", "a", " ">>), StrValue(<<"a", "b", "c", "d">>)},
     code : {NoValue, StrValue(<<>>), StrValue(<<"1", "2">>), StrValue(<<"a", "1">>)},
     avatar : {FileValue}]

\* createForm(containerId, fields, options); last records what the handler
\* that ran last did
createForm(avatarRequired, validation, hasOnSubmit) ==
    [id |-> "form_user",
     fields |-> FormFields(avatarRequired),
     config |-> [validation |-> validation, onSubmit |-> hasOnSubmit],
     values |-> NoValues,
     errors |-> NoErrors,
     last |-> [op |-> "create", called |-> FALSE, threw |-> FALSE]]

\* the body of validateForm's forEach for one field: the error it leaves for
\* the field, or the TypeError of calling trim on a File
ValidateField(field, value) ==
    LET needsTrim == field.required /\ ValueTruthy(value)
        required == field.required /\
                        (~ValueTruthy(value) \/ (value.kind = "string" /\ trim(value.chars) = <<>>))
        rules == ValueTruthy(value) /\ field.validation.present
        \* value.length of a File is undefined, and no comparison with it holds
        tooShort == /\ rules /\ field.validation.minLength # 0 /\ value.kind = "string"
                    /\ Len(value.chars) < field.validation.minLength
        tooLong == /\ rules /\ field.validation.maxLength # 0 /\ value.kind = "string"
                   /\ Len(value.chars) > field.validation.maxLength
        \* String(file) is "[object File]"
        badFormat == /\ rules /\ field.validation.pattern
                     /\ (value.kind = "file" \/ ~PatternTest(value.chars))
    IN  [threw |-> needsTrim /\ value.kind = "file",
         error |-> IF badFormat THEN PatternMsg
                   ELSE IF tooLong THEN MaxLengthMsg(field.validation.maxLength)
                   ELSE IF tooShort THEN MinLengthMsg(field.validation.minLength)
                   ELSE IF required THEN RequiredMsg
                   ELSE UndefV]

\* validateForm(form)
validateForm(f) ==
    LET of(name) == CHOOSE i \in 1..Len(f.fields) : f.fields[i].name = name
        checked == [name \in FieldNames |->
                        ValidateField(f.fields[of(name)], f.values[name])]
    IN  [threw |-> \E name \in FieldNames : checked[name].threw,
         errors |-> [name \in FieldNames |-> checked[name].error]]

\* Object.keys(errors).length > 0
HasErrors(errors) == \E name \in FieldNames : errors[name] # UndefV

\* new APIClient() on a page whose localStorage may hold a session
Init ==
    /\ storage \in [admin_token : {NullV, "a0"}, admin_refresh_token : {NullV, "r0"}]
    /\ token = storage.admin_token
    /\ refreshToken = storage.admin_refresh_token
    /\ location = "/admin"
    /\ calls = [c \in Calls |-> IdleCall]
    /\ batch = NoBatch
    /\ table = NoTable
    /\ form = NoForm

\* what a response's status is remembered as: "200", "401", "500" or "neterr"
StatusOf(response) == IF response.net = "fail" THEN "neterr" ELSE ToString(response.status)

\* a call of refreshAuthToken as the call that made it remembers it: the
\* refresh token it posted, and once answered whether it succeeded and the
\* token pair of the answer
RefreshCall(rt) ==
    [sent |-> rt, status |-> "none", refreshed |-> FALSE,
     access_token |-> UndefV, refresh_token |-> UndefV]
RefreshAnswer(rc, refreshed, rresp) ==
    LET p == JsonParse(rresp.body)
    IN  [rc EXCEPT !.status = StatusOf(rresp), !.refreshed = refreshed,
                   !.access_token = IF refreshed THEN p.value.access_token ELSE UndefV,
                   !.refresh_token = IF refreshed THEN p.value.refresh_token ELSE UndefV]

SetAuth(a) ==
    /\ token' = a.token
    /\ refreshToken' = a.refreshToken
    /\ storage' = a.storage

\* the page makes a call when no call of its own is in flight
NextCall(c) == calls[c].pc \in {"idle", "done"} /\ batch.state = "none"

\* request(method, endpoint, data, options) to its first await
StartRequest(c, r, options) ==
    /\ NextCall(c)
    /\ calls' = [calls EXCEPT ![c] =
                    [IdleCall EXCEPT !.kind = "request", !.pc = "sent1", !.req = r,
                                     !.options = options,
                                     !.sent = <<Sent(Config(r, getHeaders(token), options),
                                                     token)>>]]
    /\ UNCHANGED <<token, refreshToken, storage, location, batch, ui>>

\* login(email, password): post('/auth/admin/login', { email, password })
StartLogin(c) ==
    /\ NextCall(c)
    /\ calls' = [calls EXCEPT ![c] =
                    [IdleCall EXCEPT !.kind = "login", !.pc = "sent1", !.req = LoginRequest,
                                     !.sent = <<Sent(Config(LoginRequest, getHeaders(token),
                                                            NoOptions), token)>>]]
    /\ UNCHANGED <<token, refreshToken, storage, location, batch, ui>>

\* logout() to the await of post('/auth/logout')
StartLogout(c) ==
    /\ NextCall(c)
    /\ calls' = [calls EXCEPT ![c] =
                    [IdleCall EXCEPT !.kind = "logout", !.pc = "sent1", !.req = LogoutRequest,
                                     !.sent = <<Sent(Config(LogoutRequest, getHeaders(token),
                                                            NoOptions), token)>>]]
    /\ UNCHANGED <<token, refreshToken, storage, location, batch, ui>>

\* the sizes of the bodies uploaded; both divide 100 * loaded for every loaded
UploadSizes == {2, 4}

\* upload(endpoint, formData, onProgress) to xhr.send
StartUpload(c, size, computable, onProgress) ==
    /\ NextCall(c)
    /\ calls' = [calls EXCEPT ![c] =
                    [IdleCall EXCEPT !.kind = "upload", !.pc = "sent1",
                                     !.xhr = [size |-> size, computable |-> computable,
                                              onProgress |-> onProgress, loaded |-> 0,
                                              events |-> 0, complete |-> FALSE],
                                     !.sent = <<Sent([method |-> "POST",
                                                      headers |-> UploadHeaders(token),
                                                      body |-> "formData"], token)>>]]
    /\ UNCHANGED <<token, refreshToken, storage, location, batch, ui>>

\* the progress event the browser fires when `loaded` bytes of the body are sent
ProgressEvent(xhr, loaded) ==
    [lengthComputable |-> xhr.computable, loaded |-> loaded,
     total |-> IF xhr.computable THEN xhr.size ELSE 0]

\* a listener that reports the fraction sent, not the percentage
Percent_Fraction(loaded, total) == loaded \div total

\* (e.loaded / e.total) * 100
Percent(loaded, total) == (loaded * 100) \div total

\* the 'progress' listener of xhr.upload: what onProgress has been called with
ProgressListener(progress, e) ==
    IF e.lengthComputable THEN Append(progress, Percent(e.loaded, e.total)) ELSE progress

\* the browser fires a progress event of the upload: the bytes sent never
\* decrease, and the event that reports the whole body is the last
UploadProgress(c, loaded) ==
    LET call == calls[c]
        e == ProgressEvent(call.xhr, loaded)
    IN  /\ call.kind = "upload" /\ call.pc = "sent1"
        /\ ~call.xhr.complete
        /\ call.xhr.events < MaxProgress
        /\ loaded >= call.xhr.loaded /\ loaded <= call.xhr.size
        /\ calls' = [calls EXCEPT ![c] =
                [call EXCEPT !.xhr.loaded = loaded, !.xhr.events = @ + 1,
                             !.xhr.complete = (loaded = call.xhr.size),
                             !.progress = IF call.xhr.onProgress
                                          THEN ProgressListener(@, e) ELSE @]]
        /\ UNCHANGED <<token, refreshToken, storage, location, batch, ui>>

\* a logout that returns the result without clearing
AfterCall_Skip(kind, a) == a

\* logout() after its await: this.clearAuth(); the other calls end with the
\* return of request() or the settling of upload's promise
AfterCall(kind, a) == IF kind = "logout" THEN clearAuth(a) ELSE a

\* the call settles: its promise is fulfilled or rejected
Settle(c, response, o) ==
    [calls[c] EXCEPT !.pc = "done", !.resp = response, !.outcome = o,
                     !.status1 = IF calls[c].pc = "sent1" THEN StatusOf(response) ELSE @]

\* the answer to the call's own request arrives: fetch resolves or rejects
\* (xhr.onload or xhr.onerror for an upload), and handleResponse runs to its
\* return, its throw, or its await of the fetch in refreshAuthToken
Receive(c, response) ==
    LET call == calls[c]
        parsed == IF call.kind = "upload"
                  THEN AwaitJsonCatch(XhrJson(response), TRUE)
                  ELSE AwaitJsonCatch(FetchJson(response), FALSE)
        h == HandleResponse(parsed, response, refreshToken)
    IN  /\ call.pc \in {"sent1", "sent2"}
        \* xhr.onload comes after the body is sent in full
        /\ (call.kind = "upload" /\ response.net = "ok") => call.xhr.complete
        /\ IF response.net = "fail"
           THEN /\ calls' = [calls EXCEPT ![c] =
                        Settle(c, response,
                               IF call.kind = "upload" THEN Rejected("Upload failed")
                               ELSE Thrown(call.kind, response.message))]
                /\ SetAuth(AfterCall(call.kind, Auth))
                /\ UNCHANGED location
           ELSE CASE h.step = "return" ->
                        /\ calls' = [calls EXCEPT ![c] =
                                Settle(c, response, Returned(call.kind, h.value))]
                        /\ SetAuth(AfterCall(call.kind, Auth))
                        /\ UNCHANGED location
                  [] h.step = "throw" ->
                        /\ calls' = [calls EXCEPT ![c] =
                                Settle(c, response, Thrown(call.kind, h.reason))]
                        /\ SetAuth(AfterCall(call.kind, Auth))
                        /\ UNCHANGED location
                  [] h.step = "authfail" ->
                        /\ calls' = [calls EXCEPT ![c] =
                                Settle(c, response, Returned(call.kind, h.value))]
                        /\ SetAuth(clearAuth(Auth))
                        /\ location' = "/admin/login"
                  [] h.step = "refresh" ->
                        /\ calls' = [calls EXCEPT ![c] =
                                [call EXCEPT !.pc = IF call.pc = "sent1" THEN "refresh1"
                                                    ELSE "refresh2",
                                             !.resp = response,
                                             !.status1 = IF call.pc = "sent1"
                                                         THEN StatusOf(response) ELSE @,
                                             !.refreshes = Append(@, RefreshCall(refreshToken))]]
                        /\ UNCHANGED <<token, refreshToken, storage, location>>
        /\ UNCHANGED <<batch, ui>>

\* a request() that retries after every successful refresh
ReceiveRefresh_RetryAgain(c, rresp) ==
    LET call == calls[c]
        r == RefreshAuthToken(Auth, rresp)
        n == Len(call.refreshes)
        done == [call.refreshes EXCEPT ![n] = RefreshAnswer(@, r.refreshed, rresp)]
    IN  /\ call.pc \in {"refresh1", "refresh2"}
        /\ IF r.refreshed
           THEN /\ UNCHANGED location
                /\ SetAuth(r.auth)
                /\ calls' = [calls EXCEPT ![c] =
                        [call EXCEPT !.pc = "sent2", !.refreshes = done,
                                     !.sent = Append(@,
                                        Sent(RetryConfig(call.sent[1],
                                                         getHeaders(r.auth.token)),
                                             r.auth.token))]]
           ELSE /\ SetAuth(clearAuth(r.auth))
                /\ location' = "/admin/login"
                /\ calls' = [calls EXCEPT ![c] =
                        [call EXCEPT !.pc = "done", !.refreshes = done,
                                     !.outcome = Returned(call.kind, AuthRequired)]]
        /\ UNCHANGED <<batch, ui>>

\* the answer of the refresh endpoint arrives: refreshAuthToken finishes,
\* handleResponse returns, and request() retries or the call settles
ReceiveRefresh(c, rresp) ==
    LET call == calls[c]
        r == RefreshAuthToken(Auth, rresp)
        n == Len(call.refreshes)
        done == [call.refreshes EXCEPT ![n] = RefreshAnswer(@, r.refreshed, rresp)]
    IN  /\ call.pc \in {"refresh1", "refresh2"}
        /\ IF r.refreshed
           THEN /\ UNCHANGED location
                /\ IF ViaRequest(call.kind) /\ call.pc = "refresh1"
                   THEN /\ SetAuth(r.auth)
                        /\ calls' = [calls EXCEPT ![c] =
                            [call EXCEPT !.pc = "sent2", !.refreshes = done,
                                         !.sent = Append(@,
                                            Sent(RetryConfig(call.sent[1],
                                                             getHeaders(r.auth.token)),
                                                 r.auth.token))]]
                   ELSE /\ SetAuth(AfterCall(call.kind, r.auth))
                        /\ calls' = [calls EXCEPT ![c] =
                            [call EXCEPT !.pc = "done", !.refreshes = done,
                                         !.outcome = Returned(call.kind, RetryMarker)]]
           ELSE /\ SetAuth(clearAuth(r.auth))
                /\ location' = "/admin/login"
                /\ calls' = [calls EXCEPT ![c] =
                        [call EXCEPT !.pc = "done", !.refreshes = done,
                                     !.outcome = Returned(call.kind, AuthRequired)]]
        /\ UNCHANGED <<batch, ui>>

\* batch(requests) to its await: every member request() runs to its fetch; the
\* page calls batch() once, with the token pair it was loaded with
StartBatch(requests) ==
    /\ batch.state = "none"
    /\ \A c \in Calls : calls[c].pc \in {"idle", "done"}
    /\ calls' = [c \in Calls |->
                    IF c <= Len(requests)
                    THEN [IdleCall EXCEPT !.kind = "request", !.pc = "sent1",
                                          !.req = requests[c],
                                          !.sent = <<Sent(Config(requests[c], getHeaders(token),
                                                                 NoOptions), token)>>]
                    ELSE IdleCall]
    /\ batch' = [state |-> "pending", requests |-> requests, results |-> <<>>]
    /\ UNCHANGED <<token, refreshToken, storage, location, ui>>

\* a batch that takes every settled member for a success
BatchEntry_Settled(req, o) ==
    [request |-> req,
     success |-> o.state = "fulfilled",
     data |-> IF o.state = "fulfilled" THEN o.value.data ELSE JNull,
     error |-> IF o.state = "rejected" THEN o.reason
               ELSE IF ~o.value.success THEN o.value.error ELSE NullV]

\* one element of the array batch() returns, from what Promise.allSettled
\* reports for the member
BatchEntry(req, o) ==
    [request |-> req,
     success |-> o.state = "fulfilled" /\ o.value.success,
     data |-> IF o.state = "fulfilled" THEN o.value.data ELSE JNull,
     error |-> IF o.state = "rejected" THEN o.reason
               ELSE IF ~o.value.success THEN o.value.error ELSE NullV]

\* results.map((result, index) => ...)
BatchResults(requests, outcomes) ==
    [i \in 1..Len(outcomes) |-> BatchEntry(requests[i], outcomes[i])]

\* a batch that returns when the first member has settled
BatchJoin_First ==
    /\ batch.state = "pending"
    /\ \E c \in 1..Len(batch.requests) : calls[c].pc = "done"
    /\ batch' = [batch EXCEPT !.state = "done",
                              !.results = BatchResults(batch.requests,
                                    [c \in 1..Len(batch.requests) |-> calls[c].outcome])]
    /\ UNCHANGED <<token, refreshToken, storage, location, calls, ui>>

\* Promise.allSettled resolves: every member has settled, batch() returns
BatchJoin ==
    /\ batch.state = "pending"
    /\ \A c \in 1..Len(batch.requests) : calls[c].pc = "done"
    /\ batch' = [batch EXCEPT !.state = "done",
                              !.results = BatchResults(batch.requests,
                                    [c \in 1..Len(batch.requests) |-> calls[c].outcome])]
    /\ UNCHANGED <<token, refreshToken, storage, location, calls, ui>>

\* the lists of requests passed to batch()
BatchInputs == UNION {[1..n -> Requests] : n \in 0..MaxBatch}

\* what the login endpoint answers when it accepts the credentials
LoginResponses == {HttpResponse(200, "{\"access_token\":\"a1\",\"refresh_token\":\"r1\"}")}

\* the login endpoint accepts the credentials of a login() in flight
ReceiveLogin(c, response) == calls[c].kind = "login" /\ Receive(c, response)

\* a page that makes its calls one after another, each as call 1
Next ==
    \/ \E r \in SoloRequests, options \in OptionsSet : StartRequest(1, r, options)
    \/ \E size \in UploadSizes, computable \in BOOLEAN, onProgress \in BOOLEAN :
            StartUpload(1, size, computable, onProgress)
    \/ StartLogin(1)
    \/ StartLogout(1)
    \/ \E size \in UploadSizes : \E loaded \in 0..size : UploadProgress(1, loaded)
    \/ \E response \in ApiResponses : Receive(1, response)
    \/ \E response \in LoginResponses : ReceiveLogin(1, response)
    \/ \E rresp \in RefreshResponses : ReceiveRefresh(1, rresp)

Spec == Init /\ [][Next]_vars

\* every transport call of the call in flight completes: its fetch resolves or
\* rejects
SpecFair ==
    /\ Spec
    /\ WF_vars(\E response \in ApiResponses : Receive(1, response))
    /\ WF_vars(\E rresp \in RefreshResponses : ReceiveRefresh(1, rresp))

\* a page that calls batch()
NextBatch ==
    \/ \E requests \in BatchInputs : StartBatch(requests)
    \/ \E c \in Calls, response \in BatchApiResponses : Receive(c, response)
    \/ \E c \in Calls, rresp \in BatchRefreshResponses : ReceiveRefresh(c, rresp)
    \/ BatchJoin

SpecBatch == Init /\ [][NextBatch]_vars

\* the continuation of batch() runs once Promise.allSettled has resolved
SpecBatchFair == SpecBatch /\ WF_vars(BatchJoin)

\* a page that calls logout() while a request() of its own may be in flight:
\* the request is call 1, the logout call 2
NextLogout ==
    \/ \E r \in Requests : StartRequest(1, r, NoOptions)
    \/ StartLogout(2)
    \/ \E c \in Calls, response \in BatchApiResponses : Receive(c, response)
    \/ \E c \in Calls, rresp \in BatchRefreshResponses : ReceiveRefresh(c, rresp)

SpecLogout == Init /\ [][NextLogout]_vars

(***************************************************************************)
(* ComponentManager: the handlers of the data table                        *)
(***************************************************************************)
\* a page creates its table
InitTable ==
    /\ storage = [admin_token |-> NullV, admin_refresh_token |-> NullV]
    /\ token = NullV
    /\ refreshToken = NullV
    /\ location = "/admin"
    /\ calls = [c \in Calls |-> IdleCall]
    /\ batch = NoBatch
    /\ form = NoForm
    /\ table \in {createDataTable(in) : in \in TableInputs}

\* a search that keeps the page the table shows
handleTableSearch_KeepPage(query) ==
    /\ table' = [table EXCEPT !.searchQuery = query, !.lastOp = "search"]
    /\ UNCHANGED <<token, refreshToken, storage, location, calls, batch, form>>

\* handleTableSearch(tableId, query)
handleTableSearch(query) ==
    /\ table' = [table EXCEPT !.searchQuery = query, !.currentPage = 1,
                              !.lastOp = "search"]
    /\ UNCHANGED <<token, refreshToken, storage, location, calls, batch, form>>

\* sortTable(tableId, column)
sortTable(column) ==
    /\ table' = IF table.sortColumn = column
                THEN [table EXCEPT !.sortDirection = IF @ = "asc" THEN "desc" ELSE "asc",
                                   !.lastOp = "sort"]
                ELSE [table EXCEPT !.sortColumn = column, !.sortDirection = "asc",
                                   !.lastOp = "sort"]
    /\ UNCHANGED <<token, refreshToken, storage, location, calls, batch, form>>

\* changePage(tableId, page), from a control of the pagination
changePage(page) ==
    /\ page \in OfferedPages(table)
    /\ table' = [table EXCEPT !.currentPage = page, !.lastOp = "page"]
    /\ UNCHANGED <<token, refreshToken, storage, location, calls, batch, form>>

\* toggleRow(tableId, rowIndex), from a click on a rendered row: the user
\* switches the checkbox of the row shown at that place
toggleRow(rowIndex) ==
    LET row == renderTable(table).processedData[rowIndex + 1]
    IN  /\ rowIndex \in RenderedIndices(table)
        /\ table' = [table EXCEPT
                        !.selectedRows = IF rowIndex \in @ THEN @ \ {rowIndex}
                                         ELSE @ \cup {rowIndex},
                        !.toggled = IF row \in RenderedChecked(table) THEN @ \ {row}
                                    ELSE @ \cup {row},
                        !.lastOp = "toggle"]
        /\ UNCHANGED <<token, refreshToken, storage, location, calls, batch, form>>

\* toggleAllRows(tableId, checked)
toggleAllRows(checked) ==
    /\ table.config.selectable
    /\ table' = [table EXCEPT
                    !.selectedRows = IF checked THEN @ \cup {i - 1 : i \in 1..Len(table.data)}
                                     ELSE {},
                    !.toggled = IF checked THEN {table.data[i] : i \in 1..Len(table.data)}
                                ELSE {},
                    !.lastOp = IF checked THEN "all" ELSE "none"]
    /\ UNCHANGED <<token, refreshToken, storage, location, calls, batch, form>>

NextTable ==
    \/ \E query \in Queries : handleTableSearch(query)
    \/ \E column \in Columns : sortTable(column)
    \/ \E page \in OfferedPages(table) : changePage(page)
    \/ \E rowIndex \in RenderedIndices(table) : toggleRow(rowIndex)
    \/ \E checked \in BOOLEAN : toggleAllRows(checked)

SpecTable == InitTable /\ [][NextTable]_vars

(***************************************************************************)
(* ComponentManager: the handlers of the form                              *)
(***************************************************************************)
\* a page creates its form
InitForm ==
    /\ storage = [admin_token |-> NullV, admin_refresh_token |-> NullV]
    /\ token = NullV
    /\ refreshToken = NullV
    /\ location = "/admin"
    /\ calls = [c \in Calls |-> IdleCall]
    /\ batch = NoBatch
    /\ table = NoTable
    /\ form \in {createForm(avatarRequired, validation, hasOnSubmit) :
                    avatarRequired \in BOOLEAN, validation \in BOOLEAN,
                    hasOnSubmit \in BOOLEAN}

\* a submit handler that reports the errors and submits all the same
handleFormSubmit_SubmitAnyway(values) ==
    LET entered == [form EXCEPT !.values = values]
        v == validateForm(entered)
    IN  /\ form' = [entered EXCEPT
                        !.errors = IF form.config.validation /\ ~v.threw /\ HasErrors(v.errors)
                                   THEN v.errors ELSE @,
                        !.last = [op |-> "submit", called |-> form.config.onSubmit,
                                  threw |-> form.config.validation /\ v.threw]]
        /\ UNCHANGED <<token, refreshToken, storage, location, calls, batch, table>>

\* handleFormSubmit(formId, event), event.target holding the values
handleFormSubmit(values) ==
    LET entered == [form EXCEPT !.values = values]
        v == validateForm(entered)
    IN  /\ form' =
            IF form.config.validation /\ v.threw
            THEN [entered EXCEPT !.last = [op |-> "submit", called |-> FALSE, threw |-> TRUE]]
            ELSE IF form.config.validation /\ HasErrors(v.errors)
            THEN [entered EXCEPT !.errors = v.errors,
                                 !.last = [op |-> "submit", called |-> FALSE,
                                           threw |-> FALSE]]
            ELSE [entered EXCEPT !.last = [op |-> "submit", called |-> form.config.onSubmit,
                                           threw |-> FALSE]]
        /\ UNCHANGED <<token, refreshToken, storage, location, calls, batch, table>>

\* handleFormReset(formId)
handleFormReset ==
    /\ form' = [form EXCEPT !.values = NoValues, !.errors = NoErrors,
                            !.last = [op |-> "reset", called |-> FALSE, threw |-> FALSE]]
    /\ UNCHANGED <<token, refreshToken, storage, location, calls, batch, table>>

NextForm ==
    \/ \E values \in SubmittedValues : handleFormSubmit(values)
    \/ handleFormReset

SpecForm == InitForm /\ [][NextForm]_vars

(***************************************************************************)
(* Properties                                                              *)
(***************************************************************************)
IsRequest(c) == calls[c].kind = "request"
Settled(c) == calls[c].pc = "done"
NoToken(v) == v \in {NullV, UndefV}

\* the value a body stands for when a body that is not JSON counts as {}
BodyValue(response) ==
    LET p == JsonParse(response.body) IN IF p.ok THEN p.value ELSE JEmpty

\* the envelope that reports the answer to a request on its own: data on 2xx,
\* the server's message or the status text otherwise
ServerMessage(response) ==
    IF BodyValue(response).kind = "object" /\ Truthy(BodyValue(response).error)
    THEN BodyValue(response).error
    ELSE HttpErrorText(response.status)
EnvelopeOf(response) ==
    IF Ok(response)
    THEN [success |-> TRUE, data |-> BodyValue(response), error |-> UndefV, retry |-> FALSE]
    ELSE [success |-> FALSE, data |-> JUndef, error |-> ServerMessage(response),
          retry |-> FALSE]

\* C1: a request() whose first response is 2xx settles at once with
\* { success: true, data: <the parsed body> }, having made no refresh call and
\* sent the request once.
C1_SuccessEnvelope ==
    \A c \in Calls :
        (IsRequest(c) /\ calls[c].status1 = "200") =>
            /\ Settled(c)
            /\ calls[c].outcome.state = "fulfilled"
            /\ calls[c].outcome.value.success = TRUE
            /\ calls[c].outcome.value.data = BodyValue(calls[c].resp)
            /\ calls[c].refreshes = <<>>
            /\ Len(calls[c].sent) = 1

C1_Witness ==
    \E c \in Calls :
        /\ IsRequest(c) /\ Settled(c) /\ calls[c].status1 = "200"
        /\ calls[c].resp.body = "{\"id\":7}"
        /\ calls[c].outcome.value.data.id = "7"

\* C2: a request() that got 401 with a refresh token stored, and whose refresh
\* was answered with new tokens, makes exactly one refresh call and exactly one
\* retry, and returns the envelope of the retried request.
C2_OneRefreshOneRetry ==
    \A c \in Calls :
        (/\ IsRequest(c) /\ Settled(c) /\ calls[c].status1 = "401"
         /\ Len(calls[c].refreshes) >= 1
         /\ calls[c].refreshes[1].status = "200"
         /\ Truthy(calls[c].refreshes[1].access_token)
         /\ Truthy(calls[c].refreshes[1].refresh_token)) =>
            /\ Len(calls[c].refreshes) = 1
            /\ Len(calls[c].sent) = 2
            /\ calls[c].outcome.state = "fulfilled"
            /\ calls[c].resp.net = "ok" => calls[c].outcome.value.success = Ok(calls[c].resp)

\* C3: a single request() makes at most one refresh call, whatever the server
\* answers.
C3_AtMostOneRefresh ==
    \A c \in Calls : IsRequest(c) => Len(calls[c].refreshes) <= 1

\* C4: a request() that got 401 with no refresh token stored, or whose refresh
\* was rejected or did not reach the endpoint, leaves no access token and no
\* refresh token in memory or in localStorage, and has sent the request once.
C4_ClearedNoRetry ==
    \A c \in Calls :
        (/\ IsRequest(c) /\ Settled(c) /\ calls[c].status1 = "401"
         /\ \/ calls[c].refreshes = <<>>
            \/ /\ Len(calls[c].refreshes) = 1
               /\ calls[c].refreshes[1].status \in {"401", "neterr"}) =>
            /\ token = NullV
            /\ refreshToken = NullV
            /\ storage.admin_token = NullV
            /\ storage.admin_refresh_token = NullV
            /\ Len(calls[c].sent) = 1

C4_Witness ==
    \E c \in Calls :
        /\ IsRequest(c) /\ Settled(c) /\ calls[c].status1 = "401"
        /\ calls[c].sent[1].headers.Authorization = "a0"
        /\ Len(calls[c].refreshes) = 1
        /\ calls[c].refreshes[1].sent = "r0"
        /\ calls[c].refreshes[1].status = "401"
        /\ storage.admin_refresh_token = NullV

\* C5: when the last answer to a request() is a 401 that is not recovered (no
\* refresh token was stored, or the refresh it triggered failed), the call has
\* settled with { success: false, error: 'Authentication required' } and the
\* page has been sent to the login route; the call made no refresh and no
\* send after that 401.
C5_TerminalAuthFailure ==
    \A c \in Calls :
        (/\ IsRequest(c) /\ Settled(c)
         /\ calls[c].resp.net = "ok" /\ calls[c].resp.status = 401
         /\ \/ calls[c].refreshes = <<>>
            \/ ~calls[c].refreshes[Len(calls[c].refreshes)].refreshed) =>
            /\ calls[c].outcome.state = "fulfilled"
            /\ calls[c].outcome.value.success = FALSE
            /\ calls[c].outcome.value.error = "Authentication required"
            /\ calls[c].outcome.value.retry = FALSE
            /\ location = "/admin/login"
            /\ Len(calls[c].refreshes) <= Len(calls[c].sent)

C5_Witness ==
    \E c \in Calls :
        /\ IsRequest(c) /\ Settled(c)
        /\ calls[c].resp.status = 401
        /\ Len(calls[c].refreshes) = 1
        /\ ~calls[c].refreshes[1].refreshed
        /\ calls[c].outcome.value.error = "Authentication required"
        /\ location = "/admin/login"

\* C6: a request() whose transport failed, on the first attempt or on the
\* retry, settles fulfilled with success false and a non-empty error message;
\* the promise of request() is never rejected.
C6_TransportFailureEnvelope ==
    \A c \in Calls :
        IsRequest(c) =>
            /\ calls[c].outcome.state # "rejected"
            /\ (Settled(c) /\ calls[c].resp.net = "fail") =>
                    /\ calls[c].outcome.state = "fulfilled"
                    /\ calls[c].outcome.value.success = FALSE
                    /\ Truthy(calls[c].outcome.value.error)

C6_Witness ==
    \E c \in Calls :
        /\ IsRequest(c) /\ Settled(c)
        /\ Len(calls[c].sent) = 2
        /\ calls[c].resp.net = "fail" /\ calls[c].resp.message = ""
        /\ calls[c].outcome.value.error = "Network error occurred"

\* C7: a request() whose response is neither 2xx nor 401 settles with
\* { success: false, error: e }, e the server's error message when the body
\* carries one and the text built from the status otherwise, with no refresh
\* and no retry.
C7_HttpErrorEnvelope ==
    \A c \in Calls :
        (IsRequest(c) /\ Settled(c) /\ calls[c].status1 = "500") =>
            /\ calls[c].outcome = Fulfilled(Failure(ServerMessage(calls[c].resp)))
            /\ calls[c].refreshes = <<>>
            /\ Len(calls[c].sent) = 1

\* C8: no operation of the client rejects its promise: a transport error, an
\* HTTP error status, an authentication failure and an unparsable body all
\* arrive as a fulfilled envelope whose success is false.
C8_NeverRejects ==
    \A c \in Calls :
        Settled(c) =>
            /\ calls[c].outcome.state = "fulfilled"
            /\ (calls[c].resp.net = "fail" \/ ~Ok(calls[c].resp)) =>
                    calls[c].outcome.value.success = FALSE

\* C9: request() and upload() both take a body that is not JSON for {}: with
\* a 2xx status the call settles with { success: true, data: {} }, with 500
\* with the envelope of the status, and never with the parse failure.
C9_MalformedBodyTolerated ==
    \A c \in Calls :
        (/\ Settled(c) /\ calls[c].resp.net = "ok"
         /\ ~JsonParse(calls[c].resp.body).ok) =>
            /\ calls[c].outcome.state = "fulfilled"
            /\ calls[c].outcome.reason # SyntaxErrorMsg
            /\ Ok(calls[c].resp) => calls[c].outcome.value = EnvelopeOf(calls[c].resp)
            /\ calls[c].resp.status = 500 =>
                    calls[c].outcome.value = EnvelopeOf(calls[c].resp)

\* null and undefined both stand for "absent"
SameOrAbsent(a, b) == a = b \/ (NoToken(a) /\ NoToken(b))

\* C10: batch(requests) returns one entry per request, in the order of the
\* requests; entry i names requests[i] and carries the success, data and error
\* of member i's own envelope, and a member whose own request was answered 2xx
\* is reported as a success with the data of its own response, whatever
\* became of the other members.
C10_BatchEntries ==
    batch.state = "done" =>
        /\ Len(batch.results) = Len(batch.requests)
        /\ \A i \in 1..Len(batch.requests) :
            /\ batch.results[i].request = batch.requests[i]
            /\ batch.results[i].request = calls[i].req
            /\ batch.results[i].success = calls[i].outcome.value.success
            /\ batch.results[i].data = calls[i].outcome.value.data
            /\ SameOrAbsent(batch.results[i].error, calls[i].outcome.value.error)
            /\ (calls[i].resp.net = "ok" /\ Ok(calls[i].resp)) =>
                    /\ batch.results[i].success = TRUE
                    /\ batch.results[i].data = BodyValue(calls[i].resp)

C10_Witness ==
    /\ batch.state = "done"
    /\ Len(batch.requests) = 2
    /\ batch.requests[1] # batch.requests[2]
    /\ batch.results[1].success = FALSE
    /\ batch.results[1].error = "quota exceeded"
    /\ batch.results[2].success = TRUE
    /\ batch.results[2].data.id = "7"

Members == 1..Len(batch.requests)

\* C11: batch() has sent the request of every member before it awaits, so
\* before any member can complete; it has returned only when every member has
\* settled; and once every member has settled it does return.
C11_BatchStartsAllAndJoins ==
    /\ [](batch.state = "pending" =>
            \A c \in Members : calls[c].pc # "idle" /\ Len(calls[c].sent) >= 1)
    /\ [](batch.state = "done" =>
            \A c \in Members : Settled(c) /\ calls[c].outcome.state # "pending")
    /\ ((batch.state = "pending" /\ \A c \in Members : Settled(c))
            ~> (batch.state = "done"))

C11_Witness ==
    /\ batch.state = "done"
    /\ Len(batch.requests) = 2
    /\ Len(calls[1].sent) = 2 /\ Len(calls[1].refreshes) = 1
    /\ calls[2].resp.net = "fail"

IsUpload(c) == calls[c].kind = "upload"
Cleared ==
    /\ token = NullV /\ refreshToken = NullV
    /\ storage.admin_token = NullV /\ storage.admin_refresh_token = NullV

\* C12: an upload() answered 401 behaves as request() does: after a successful
\* refresh the upload is sent a second time and the caller gets the outcome of
\* that second upload; with no refresh token or a failed refresh the
\* credentials are cleared and the caller gets 'Authentication required'.
C12_UploadFollows401Contract ==
    \A c \in Calls :
        (IsUpload(c) /\ Settled(c) /\ calls[c].status1 = "401") =>
            IF calls[c].refreshes # <<>> /\ calls[c].refreshes[1].refreshed
            THEN /\ Len(calls[c].sent) = 2
                 /\ calls[c].outcome.state = "fulfilled"
                 /\ calls[c].outcome.value.retry = FALSE
            ELSE /\ Cleared
                 /\ calls[c].outcome.state = "fulfilled"
                 /\ calls[c].outcome.value.error = "Authentication required"

NonDecreasing(seq) == \A i \in 1..Len(seq) : \A j \in 1..Len(seq) : i <= j => seq[i] <= seq[j]
UploadSucceeded(c) ==
    /\ IsUpload(c) /\ Settled(c)
    /\ calls[c].outcome.state = "fulfilled" /\ calls[c].outcome.value.success

\* C13 as stated: every upload() that succeeds and was given a progress
\* callback has called it with non-decreasing percentages, the last one 100.
C13_ProgressEndsAt100 ==
    \A c \in Calls :
        (UploadSucceeded(c) /\ calls[c].xhr.onProgress) =>
            /\ NonDecreasing(calls[c].progress)
            /\ calls[c].progress # <<>>
            /\ calls[c].progress[Len(calls[c].progress)] = 100

\* C13: every upload() that succeeds, was given a progress callback and whose
\* progress events are length-computable has called the callback with
\* non-decreasing percentages, the last one 100.
C13_ComputableProgressEndsAt100 ==
    \A c \in Calls :
        (UploadSucceeded(c) /\ calls[c].xhr.onProgress /\ calls[c].xhr.computable) =>
            /\ NonDecreasing(calls[c].progress)
            /\ calls[c].progress # <<>>
            /\ calls[c].progress[Len(calls[c].progress)] = 100

C13_Witness ==
    \E c \in Calls :
        /\ UploadSucceeded(c) /\ calls[c].xhr.onProgress /\ calls[c].xhr.computable
        /\ Len(calls[c].progress) = 3
        /\ calls[c].progress[1] = 25
        /\ calls[c].progress[3] = 100

\* C14: after login() has resolved with a success envelope that carries
\* tokens, the access token and the refresh token of the client, in memory and
\* in localStorage, are the ones the server returned.
C14_LoginStoresTokens ==
    \A c \in Calls :
        (/\ calls[c].kind = "login" /\ Settled(c)
         /\ calls[c].outcome.state = "fulfilled" /\ calls[c].outcome.value.success
         /\ Truthy(calls[c].outcome.value.data.access_token)
         /\ Truthy(calls[c].outcome.value.data.refresh_token)) =>
            /\ token = calls[c].outcome.value.data.access_token
            /\ storage.admin_token = calls[c].outcome.value.data.access_token
            /\ refreshToken = calls[c].outcome.value.data.refresh_token
            /\ storage.admin_refresh_token = calls[c].outcome.value.data.refresh_token

\* C15: when logout() has resolved, whatever the answer to its POST was, no
\* access token and no refresh token is left in memory or in localStorage.
C15_LogoutClears ==
    \A c \in Calls :
        (calls[c].kind = "logout" /\ Settled(c)) =>
            /\ token = NullV
            /\ refreshToken = NullV
            /\ storage.admin_token = NullV
            /\ storage.admin_refresh_token = NullV

C15_Witness ==
    \E c \in Calls :
        /\ calls[c].kind = "logout" /\ Settled(c)
        /\ calls[c].sent[1].stored = "a0"
        /\ Len(calls[c].sent) = 2
        /\ calls[c].refreshes[1].access_token = "a1"
        /\ calls[c].resp.status = 200
        /\ storage.admin_token = NullV

TokenPair == <<token, refreshToken, storage>>

\* the step is the end of a successful refresh of call c
RefreshSucceeds(c) ==
    /\ calls[c].pc \in {"refresh1", "refresh2"}
    /\ calls'[c].refreshes[Len(calls[c].refreshes)].refreshed
\* the step settles call c
Settles(c) == calls[c].pc # "done" /\ calls'[c].pc = "done"
\* the step settles call c with the irrecoverable 401
FailsAuth(c) ==
    /\ Settles(c)
    /\ calls'[c].outcome.state = "fulfilled"
    /\ calls'[c].outcome.value.error = "Authentication required"

\* C16: the token pair, in memory and in localStorage, changes only in a step
\* that ends a successful refresh, ends a login or a logout, or reports the
\* irrecoverable 401; a request() that is answered at once with 2xx, with an
\* error status other than 401 or with a transport failure leaves the pair as
\* it was, from its call to its return.
C16_TokenPairFrame ==
    [][/\ TokenPair' # TokenPair =>
            \E c \in Calls :
                \/ RefreshSucceeds(c)
                \/ FailsAuth(c)
                \/ Settles(c) /\ calls[c].kind \in {"login", "logout"}
       /\ \A c \in Calls :
            (/\ calls'[c].kind = "request"
             /\ \/ calls[c].pc \in {"idle", "done"} /\ calls'[c].pc = "sent1"
                \/ /\ calls[c].pc = "sent1" /\ calls'[c].pc = "done"
                   /\ calls'[c].status1 \in {"200", "500", "neterr"}) =>
                TokenPair' = TokenPair]_vars

C16_Witness ==
    \E c \in Calls :
        /\ IsRequest(c) /\ Settled(c) /\ calls[c].status1 = "500"
        /\ calls[c].sent[1].stored = "a0"
        /\ token = "a0" /\ storage.admin_token = "a0"
        /\ refreshToken = NullV /\ storage.admin_refresh_token = NullV

\* C17: every request that request() sends, first attempt and retry, has
\* Content-Type application/json and, when the client holds an access token,
\* that token as its Authorization; the headers the caller passes in options
\* are on it as well.
C17_HeadersOnEverySend ==
    \A c \in Calls :
        IsRequest(c) =>
            \A i \in 1..Len(calls[c].sent) :
                /\ calls[c].sent[i].headers.ContentType = "application/json"
                /\ Truthy(calls[c].sent[i].stored) =>
                        calls[c].sent[i].headers.Authorization = calls[c].sent[i].stored
                /\ calls[c].options.hasHeaders =>
                        calls[c].sent[i].headers.XRequestedWith
                            = calls[c].options.headers.XRequestedWith

\* C18: when request() has sent its retry, the client holds the tokens the
\* refresh returned, and the retry carries the access token of that refresh:
\* when that token differs from the one of the first attempt, so does the
\* retry's Authorization.
C18_RetryCarriesRefreshedToken ==
    \A c \in Calls :
        (IsRequest(c) /\ Len(calls[c].sent) = 2) =>
            LET first == calls[c].sent[1]
                retry == calls[c].sent[2]
                got == calls[c].refreshes[1]
            IN  /\ got.refreshed
                /\ retry.stored = got.access_token
                /\ Truthy(got.access_token) => retry.headers.Authorization = got.access_token
                /\ got.access_token # first.stored =>
                        retry.headers.Authorization # first.stored
                /\ calls[c].pc = "sent2" =>
                        /\ token = got.access_token
                        /\ Truthy(got.access_token) => storage.admin_token = got.access_token
                        /\ Truthy(got.refresh_token) =>
                                /\ refreshToken = got.refresh_token
                                /\ storage.admin_refresh_token = got.refresh_token

C18_Witness ==
    \E c \in Calls :
        /\ IsRequest(c) /\ calls[c].pc = "sent2"
        /\ ~calls[c].options.hasHeaders
        /\ calls[c].sent[1].headers.Authorization = "a0"
        /\ calls[c].sent[2].headers.Authorization = "a1"
        /\ token = "a1"

\* C19: request() sends a body exactly when the method is POST, PUT or PATCH
\* and data was passed; the body is the JSON text of the data, and the retry
\* has the body of the first attempt.
C19_BodyIffMutatingWithData ==
    \A c \in Calls :
        IsRequest(c) =>
            \A i \in 1..Len(calls[c].sent) :
                LET supplied == calls[c].req.data.kind \notin {"null", "undefined"}
                    mutating == ToUpperCase(calls[c].req.method) \in {"POST", "PUT", "PATCH"}
                IN  /\ (calls[c].sent[i].body # UndefV) <=> (mutating /\ supplied)
                    /\ calls[c].sent[i].body # UndefV =>
                            calls[c].sent[i].body = JsonStringify(calls[c].req.data)
                    /\ calls[c].sent[i].body = calls[c].sent[1].body

\* C20: a request() sends its request at most twice, and once sent it returns,
\* given that each of its transport calls completes.
C20_AtMostTwoSendsThenReturns ==
    /\ [](\A c \in Calls : IsRequest(c) => Len(calls[c].sent) <= 2)
    /\ \A c \in Calls :
        (IsRequest(c) /\ calls[c].pc = "sent1") ~> (IsRequest(c) /\ Settled(c))

C20_Witness ==
    \E c \in Calls :
        /\ IsRequest(c) /\ Settled(c)
        /\ Len(calls[c].sent) = 2
        /\ Len(calls[c].refreshes) = 2
        /\ calls[c].refreshes[2].refreshed

\* C21: what request() returns is an envelope: success true, or success false
\* with an error string; it is never the retry marker of handleResponse.
C21_EnvelopeShape ==
    \A c \in Calls :
        (IsRequest(c) /\ Settled(c)) =>
            /\ calls[c].outcome.state = "fulfilled"
            /\ calls[c].outcome.value.retry = FALSE
            /\ calls[c].outcome.value.success \/ calls[c].outcome.value.error # UndefV

\* C22: a refresh posts the refresh token the client holds; answered 2xx with
\* an access token and a refresh token, refreshAuthToken stores both, in
\* memory and in localStorage; answered non-2xx or not at all, it returns
\* false and leaves the pair as it was.
C22_RefreshStoresOrLeaves ==
    /\ \A c \in Calls :
        calls[c].pc \in {"refresh1", "refresh2"} =>
            /\ Truthy(refreshToken)
            /\ calls[c].refreshes[Len(calls[c].refreshes)].sent = refreshToken
    /\ \A rresp \in RefreshResponses :
        LET r == RefreshAuthToken(Auth, rresp)
            p == JsonParse(rresp.body)
        IN  /\ (/\ rresp.net = "ok" /\ rresp.status = 200 /\ p.ok
                /\ Truthy(p.value.access_token) /\ Truthy(p.value.refresh_token)) =>
                    /\ r.refreshed
                    /\ r.auth.token = p.value.access_token
                    /\ r.auth.storage.admin_token = p.value.access_token
                    /\ r.auth.refreshToken = p.value.refresh_token
                    /\ r.auth.storage.admin_refresh_token = p.value.refresh_token
            /\ (rresp.net = "fail" \/ rresp.status # 200) =>
                    /\ ~r.refreshed
                    /\ r.auth.token = token
                    /\ r.auth.refreshToken = refreshToken
                    /\ r.auth.storage = storage
    /\ \A c \in Calls :
        (/\ calls[c].pc = "sent2"
         /\ Truthy(calls[c].refreshes[1].access_token)
         /\ Truthy(calls[c].refreshes[1].refresh_token)) =>
            /\ token = calls[c].refreshes[1].access_token
            /\ storage.admin_token = calls[c].refreshes[1].access_token
            /\ refreshToken = calls[c].refreshes[1].refresh_token
            /\ storage.admin_refresh_token = calls[c].refreshes[1].refresh_token

C22_Witness ==
    \E c \in Calls :
        /\ calls[c].pc = "sent2"
        /\ calls[c].refreshes[1].sent = "r0"
        /\ calls[c].refreshes[1].access_token = "a2"
        /\ refreshToken = "r2" /\ storage.admin_refresh_token = "r2"
        /\ token = "a2" /\ storage.admin_token = "a2"

\* C23: whenever no call is in flight, memory and localStorage agree on each
\* token: present in one exactly when present in the other, with one value.
C23_MemoryAgreesWithStorage ==
    (\A c \in Calls : calls[c].pc \in {"idle", "done"}) =>
        /\ NoToken(token) <=> storage.admin_token = NullV
        /\ ~NoToken(token) => storage.admin_token = token
        /\ NoToken(refreshToken) <=> storage.admin_refresh_token = NullV
        /\ ~NoToken(refreshToken) => storage.admin_refresh_token = refreshToken

\* C24: among the concurrent members of a batch, a call that ends with the
\* irrecoverable 401 does not clear a token pair that another member's
\* successful refresh stored after this call's request was sent.
C24_NoStaleClear ==
    [][\A c \in Calls :
        FailsAuth(c) =>
            ~\E d \in Calls \ {c} :
                \E i \in 1..Len(calls[d].refreshes) :
                    /\ calls[d].refreshes[i].refreshed
                    /\ Truthy(token)
                    /\ token = calls[d].refreshes[i].access_token
                    /\ refreshToken = calls[d].refreshes[i].refresh_token
                    /\ calls[c].sent[Len(calls[c].sent)].stored # token]_vars

\* C25: once logout() has resolved, and until it is called again, the client
\* holds no access token and no refresh token, in memory or in localStorage.
C25_LoggedOutStaysCleared ==
    \A c \in Calls :
        (calls[c].kind = "logout" /\ Settled(c)) =>
            /\ token = NullV
            /\ refreshToken = NullV
            /\ storage = [admin_token |-> NullV, admin_refresh_token |-> NullV]

\* C26: the page a data table shows is between 1 and the number of pages of
\* the filtered rows (1 when there is none), whatever searches, sorts,
\* selections and page changes offered by the pagination came before; a
\* search leaves the table on page 1.
C26_CurrentPageInRange ==
    /\ 1 <= table.currentPage
    /\ table.currentPage
            <= (IF Len(filterData(table.data, table.searchQuery)) = 0 THEN 1
                ELSE (Len(filterData(table.data, table.searchQuery))
                        + table.config.pageSize - 1) \div table.config.pageSize)
    /\ table.lastOp = "search" => table.currentPage = 1

C26_Witness ==
    /\ table.lastOp = "page"
    /\ table.searchQuery = <<"b">>
    /\ table.sortColumn = "name"
    /\ table.config.pageSize = 1
    /\ table.currentPage = 3

\* C27: in a selectable table the rows rendered with a checked box are the
\* rows of the page that the user has switched on, whatever sorts and
\* searches came in between.
C27_SelectionFollowsRows ==
    table.config.selectable =>
        RenderedChecked(table)
            = table.toggled \cap {renderTable(table).pageData[i] :
                                        i \in 1..Len(renderTable(table).pageData)}

Blank(v) == v.kind = "undefined" \/ \A i \in 1..Len(v.chars) : v.chars[i] = " "

\* C28: after handleFormSubmit, onSubmit was called exactly when the form has
\* an onSubmit and validation is off or validateForm found no error; when
\* validateForm found errors, onSubmit was not called and form.errors is what
\* validateForm found: a blank required name, a name shorter than 2 or longer
\* than 3, a code that is not digits.
C28_SubmitIffValid ==
    form.last.op = "submit" =>
        LET v == validateForm(form)
        IN  /\ form.last.called <=>
                    /\ form.config.onSubmit
                    /\ ~form.config.validation \/ (~v.threw /\ ~HasErrors(v.errors))
            /\ (form.config.validation /\ ~v.threw /\ HasErrors(v.errors)) =>
                    /\ ~form.last.called
                    /\ form.errors = v.errors
            /\ (form.config.validation /\ ~form.last.threw) =>
                    /\ Blank(form.values.name) =>
                            ~form.last.called /\ form.errors.name # UndefV
                    /\ (form.values.name.chars # <<>> /\ Len(form.values.name.chars) < 2) =>
                            ~form.last.called /\ form.errors.name = "min 2"
                    /\ Len(form.values.name.chars) > 3 =>
                            ~form.last.called /\ form.errors.name = "max 3"
                    /\ form.values.code = [kind |-> "string", chars |-> <<"a", "1">>] =>
                            ~form.last.called /\ form.errors.code = "bad format"
                    /\ (/\ form.values.name = [kind |-> "string", chars |-> <<"a", "b">>]
                        /\ form.values.code.chars \in {<<>>, <<"1", "2">>}) =>
                            form.last.called = form.config.onSubmit

C28_Witness ==
    /\ form.last.op = "submit" /\ ~form.last.called
    /\ form.config.validation /\ form.config.onSubmit
    /\ form.values.name = [kind |-> "string", chars |-> <<>>]
    /\ form.values.code = [kind |-> "string", chars |-> <<"a", "1">>]
    /\ form.errors.name = "required"
    /\ form.errors.code = "bad format"

\* C29: after a reset, and after a submission that validateForm found no error
\* in, form.errors is empty.
C29_ErrorsOfLastSubmitOnly ==
    (\/ form.last.op = "reset"
     \/ /\ form.last.op = "submit" /\ form.config.validation
        /\ ~validateForm(form).threw /\ ~HasErrors(validateForm(form).errors)) =>
            \A name \in FieldNames : form.errors[name] = UndefV

====
